---- MODULE Spec2Model ----
(***************************************************************************)
(* Persistence and synchronisation layer of the project manager.          *)
(*                                                                         *)
(* Two sync coordinators are modelled over one set of variables:          *)
(*   variant = "data" : ProjectManager (localStorage keys pm_tasks,       *)
(*                      pm_projects, pm_deleted_tasks; endpoint /api/data, *)
(*                      whose server side is app/api/data/route.ts)        *)
(*   variant = "sort" : ProjectManagementPage (keys pm-tasks, pm-projects, *)
(*                      pm-last-updated; versioned endpoint /api/sort)     *)
(*                                                                         *)
(* Spec     is the /api/data coordinator with its server,                  *)
(* SpecSort is the versioned coordinator.                                  *)
(*                                                                         *)
(* Records carry only the fields the coordinators branch on (id, title,   *)
(* status, projectId, deletedAt, completedAt, ...); the other fields are  *)
(* copied around exactly like title.  The built-in default collections    *)
(* are shortened to their first element.                                   *)
(***************************************************************************)
EXTENDS Integers, Sequences, FiniteSets, TLC

VARIABLES
  variant,        \* which coordinator is running
  tasks,          \* useState tasks
  projects,       \* useState projects
  deletedTasks,   \* useState deletedTasks (trash), "data" only
  lastUpdated,    \* useState lastUpdated, "sort" only
  syncStatus,     \* useState syncStatus
  isInitialLoad,  \* useRef isInitialLoad
  saveTimer,      \* useRef saveTimer / saveTimeoutRef: the single debounce slot
  load,           \* position and captured locals of the mount effect (load / loadData)
  modal,          \* "sort": isModalOpen + editingTask
  cache,          \* localStorage: raw value of each key
  getReq,         \* the load-time GET: in flight, answered, or none
  posts,          \* POSTs in flight, in the order they were issued
  remote,         \* the server's kv_store row for the document
  dbOk,           \* server: is the store client configured
  srvClock,       \* server clock (lastUpdated stamps)
  clock,          \* client clock (ids and timestamps)
  ops,            \* number of mutations so far
  burstN,         \* history: mutations since the last debounce timer ran
  burstSnap,      \* history: in-memory snapshot produced by the last of them
  ev              \* history: the step that produced this state

vars == << variant, tasks, projects, deletedTasks, lastUpdated, syncStatus,
           isInitialLoad, saveTimer, load, modal, cache, getReq, posts, remote,
           dbOk, srvClock, clock, ops, burstN, burstSnap, ev >>

----------------------------------------------------------------------------
(* Bounds of the model *)
MaxOps == 1
MaxInFlight == 2
TickMs == 400
TrashExtra == 3    \* soft-deletes beyond the trash capacity in a trash cycle
MaxRoutePosts == 3 \* stored POSTs in a run against the route alone
MaxEditOps == 3    \* mutations in an editing session
TrashPick == 2     \* how far from the head of a list the user picks in a trash cycle

(* Program constants *)
MAX_DELETED == 20
DEBOUNCE_DATA == 800
DEBOUNCE_SORT == 1000
EXPECTED_VERSION == 2

----------------------------------------------------------------------------
(* JavaScript values *)
Undefined == "undefined"
Null == "null"
None == [k |-> "none"]

(* obj.key for a key the object may not own *)
Field(r, key) == IF key \in DOMAIN r THEN r[key] ELSE Undefined

(* JSON.stringify drops the properties whose value is undefined *)
OptionalKeys == {"projectId"}
DropUndef(r) == [key \in {x \in DOMAIN r : ~(x \in OptionalKeys /\ r[x] = Undefined)} |-> r[key]]
JsonArr(s) == [i \in 1..Len(s) |-> DropUndef(s[i])]

Map(F(_), s) == [i \in 1..Len(s) |-> F(s[i])]
Filter(s, T(_)) == SelectSeq(s, T)
Ids(s) == {s[i].id : i \in 1..Len(s)}
Find(s, id) == s[CHOOSE i \in 1..Len(s) : s[i].id = id /\ \A j \in 1..(i-1) : s[j].id # id]

----------------------------------------------------------------------------
(* localStorage raw values: absent key, undecodable text, or JSON text *)
Absent == [k |-> "absent"]
Corrupt == [k |-> "bad"]
Json(v) == [k |-> "json", v |-> v]

DEFAULT_PROJECTS == << [id |-> "1", name |-> "Gem Dashboard Elite"] >>
DEFAULT_TASKS == << [id |-> "1", title |-> "Fix Telegram API costs", status |-> "in_progress", projectId |-> "2"] >>

(* part_000 loadLocal: default on missing key or decode failure *)
loadLocal(raw, defaults) ==
  IF raw.k = "json" THEN raw.v ELSE defaults

(* part_000 saveLocal: JSON-encodes and writes the key *)
saveLocal(c, key, data) == [c EXCEPT ![key] = Json(JsonArr(data))]

(* localStorage.setItem throws (quota exceeded) once the storage is full *)
WriteFails(c) == "quota" \in DOMAIN c /\ c.quota = "full"

(* the three cached collections as load would decode them *)
CacheSnapshot(c) ==
  [tasks    |-> loadLocal(c.tasks, DEFAULT_TASKS),
   projects |-> loadLocal(c.projects, DEFAULT_PROJECTS),
   deleted  |-> loadLocal(c.deleted, <<>>)]

(* the in-memory document as JSON.stringify would encode it *)
Snapshot(t, p, d) == [tasks |-> JsonArr(t), projects |-> JsonArr(p), deleted |-> JsonArr(d)]
MemSnapshot == Snapshot(tasks, projects, deletedTasks)

----------------------------------------------------------------------------
(* History shared by every mutation handler: burst bookkeeping and clocks *)
Interval == IF variant = "data" THEN DEBOUNCE_DATA ELSE DEBOUNCE_SORT

TimerPending == saveTimer.k = "timer"
TimerDue == TimerPending /\ saveTimer.elapsed >= Interval

NoteMutation ==
  /\ burstN' = burstN + 1
  /\ burstSnap' = Snapshot(tasks', projects', deletedTasks')
  /\ ops' = ops + 1
  /\ clock' = clock + 1

hist == << burstN, burstSnap >>

(* does a request body carry the snapshot snap *)
BodyCarries(body, snap) ==
  /\ snap # None
  /\ body.tasks = snap.tasks
  /\ body.projects = snap.projects
  /\ ("deletedTasks" \in DOMAIN body => body.deletedTasks = snap.deleted)

(* history record of a debounce timer run: how many mutations it covers, how
   many POSTs it issued, and whether the POST carries the last mutation's snapshot *)
FiredEvent(newPosts) ==
  [op |-> "timerFired", n |-> burstN, issued |-> Len(newPosts) - Len(posts),
   carried |-> Len(newPosts) > 0 /\ BodyCarries(newPosts[Len(newPosts)].body, burstSnap)]
server == << remote, dbOk, srvClock >>

----------------------------------------------------------------------------
(* /api/data coordinator: ProjectManager (part_000) *)

(* debouncedSave that forgets the trash key *)
debouncedSave_NoTrash(t, p, d) ==
  /\ cache' = saveLocal(saveLocal(cache, "tasks", t), "projects", p)
  /\ saveTimer' = [k |-> "timer", t |-> t, p |-> p, d |-> d, elapsed |-> 0]

(* debouncedSave(t, p, d): write the three keys, then re-arm the single timer.
   Every caller passes an array for d, so `if (d)` is taken. *)
debouncedSave(t, p, d) ==
  IF WriteFails(cache)
  THEN \* the first saveLocal throws out of debouncedSave: no key written, timer not touched
       UNCHANGED << cache, saveTimer >>
  ELSE /\ cache' = saveLocal(saveLocal(saveLocal(cache, "tasks", t), "projects", p), "deleted", d)
       /\ saveTimer' = [k |-> "timer", t |-> t, p |-> p, d |-> d, elapsed |-> 0]

persistProjects(p) ==
  /\ projects' = p
  /\ UNCHANGED << tasks, deletedTasks >>
  /\ debouncedSave(tasks, p, deletedTasks)

(* persistTasks(t) : d omitted, the trash is left alone and sent as it is *)
persistTasks(t) ==
  /\ tasks' = t
  /\ UNCHANGED << projects, deletedTasks >>
  /\ debouncedSave(t, projects, deletedTasks)

(* persistTasks(t, d) *)
persistTasksD(t, d) ==
  /\ tasks' = t
  /\ deletedTasks' = d
  /\ UNCHANGED projects
  /\ debouncedSave(t, projects, d)

MutationFrame ==
  /\ NoteMutation
  /\ UNCHANGED << variant, lastUpdated, syncStatus, isInitialLoad, load, modal,
                  getReq, posts, server >>

(* mutations a run may make: MaxOps, unless the scenario brings its own budget *)
OpsBudget == IF "budget" \in DOMAIN load THEN load.budget ELSE MaxOps

CanMutate == ops < OpsBudget /\ ~TimerDue

(* s.slice(0, n) without the bound: nothing is evicted *)
SliceTo_All(s, n) == s

(* a slice that keeps the last n elements: evicts the newest instead of the oldest *)
SliceTo_Tail(s, n) == SubSeq(s, IF Len(s) > n THEN Len(s) - n + 1 ELSE 1, Len(s))

(* s.slice(0, n) *)
SliceTo(s, n) == SubSeq(s, 1, IF Len(s) > n THEN n ELSE Len(s))

Trim(s) == IF s \in {"", " "} THEN "" ELSE s

(* an id taken from a clock that stands still *)
NewId_Stuck == "100"

(* `Date.now().toString()` *)
NewId == ToString(clock)

(* a handler that returns before touching anything *)
Refused(call) ==
  /\ ev' = [op |-> "refused", call |-> call]
  /\ UNCHANGED << variant, tasks, projects, deletedTasks, lastUpdated, syncStatus, isInitialLoad,
                  saveTimer, load, modal, cache, getReq, posts, server, clock, ops, hist >>

addProject(name) ==
  /\ variant = "data" /\ CanMutate
  /\ IF Trim(name) = "" THEN Refused("addProject")
     ELSE /\ persistProjects(<< [id |-> NewId, name |-> name] >> \o projects)
          /\ ev' = [op |-> "addProject"]
          /\ MutationFrame

updateProject(editingProject) ==
  /\ variant = "data" /\ CanMutate
  /\ persistProjects(Map(LAMBDA p : IF p.id = editingProject.id THEN editingProject ELSE p, projects))
  /\ ev' = [op |-> "updateProject"]
  /\ MutationFrame

(* a delete that also drops the tasks of the project *)
deleteProject_Cascade(id) ==
  /\ variant = "data" /\ CanMutate
  /\ projects' = Filter(projects, LAMBDA p : p.id # id)
  /\ tasks' = Filter(tasks, LAMBDA t : Field(t, "projectId") # id)
  /\ UNCHANGED deletedTasks
  /\ debouncedSave(tasks', projects', deletedTasks)
  /\ ev' = [op |-> "deleteProject", id |-> id]
  /\ MutationFrame

deleteProject(id) ==
  /\ variant = "data" /\ CanMutate
  /\ persistProjects(Filter(projects, LAMBDA p : p.id # id))
  /\ ev' = [op |-> "deleteProject", id |-> id]
  /\ MutationFrame

addTask(title, status, projectId) ==
  /\ variant = "data" /\ CanMutate
  /\ IF Trim(title) = "" THEN Refused("addTask")
     ELSE /\ LET task == [id |-> NewId, title |-> title, status |-> status,
                          projectId |-> IF projectId = "" THEN Undefined ELSE projectId]
             IN persistTasks(<< task >> \o tasks)
          /\ ev' = [op |-> "addTask", title |-> title]
          /\ MutationFrame

softDeleteTask(id) ==
  /\ variant = "data" /\ CanMutate
  /\ id \in Ids(tasks)
  /\ LET task == Find(tasks, id)
         deleted == [key \in DOMAIN task \cup {"deletedAt"} |->
                       IF key = "deletedAt" THEN clock ELSE task[key]]
         newDeleted == SliceTo(<< deleted >> \o deletedTasks, MAX_DELETED)
         newTasks == Filter(tasks, LAMBDA t : t.id # id)
     IN persistTasksD(newTasks, newDeleted)
  /\ ev' = [op |-> "softDeleteTask", id |-> id]
  /\ MutationFrame

(* a restore that leaves the deletion stamp on the task *)
Restored_KeepsStamp(task) == task

(* `const { deletedAt, ...restored } = task` *)
Restored(task) == [key \in DOMAIN task \ {"deletedAt"} |-> task[key]]

(* a restore that leaves the entry in the trash *)
restoreTask_KeepsTrash(id) ==
  /\ variant = "data" /\ CanMutate
  /\ IF id \in Ids(deletedTasks)
     THEN /\ persistTasksD(<< Restored(Find(deletedTasks, id)) >> \o tasks, deletedTasks)
          /\ ev' = [op |-> "restoreTask", id |-> id]
          /\ MutationFrame
     ELSE Refused("restoreTask")

restoreTask(id) ==
  /\ variant = "data" /\ CanMutate
  /\ IF id \in Ids(deletedTasks)
     THEN /\ LET task == Find(deletedTasks, id)
                 newDeleted == Filter(deletedTasks, LAMBDA t : t.id # id)
             IN persistTasksD(<< Restored(task) >> \o tasks, newDeleted)
          /\ ev' = [op |-> "restoreTask", id |-> id]
          /\ MutationFrame
     ELSE Refused("restoreTask")

permanentDeleteTask(id) ==
  /\ variant = "data" /\ CanMutate
  /\ LET newDeleted == Filter(deletedTasks, LAMBDA t : t.id # id)
     IN /\ deletedTasks' = newDeleted
        /\ UNCHANGED << tasks, projects >>
        /\ debouncedSave(tasks, projects, newDeleted)
  /\ ev' = [op |-> "permanentDeleteTask"]
  /\ MutationFrame

(* the "Empty Trash" button, part_000 line 1732 *)
emptyTrash ==
  /\ variant = "data" /\ CanMutate
  /\ deletedTasks' = << >>
  /\ UNCHANGED << tasks, projects >>
  /\ debouncedSave(tasks, projects, << >>)
  /\ ev' = [op |-> "emptyTrash"]
  /\ MutationFrame

updateTask(updated) ==
  /\ variant = "data" /\ CanMutate
  /\ persistTasks(Map(LAMBDA t : IF t.id = updated.id THEN updated ELSE t, tasks))
  /\ ev' = [op |-> "updateTask", title |-> updated.title]
  /\ MutationFrame

updateTaskStatus(taskId, newStatus) ==
  /\ variant = "data" /\ CanMutate
  /\ persistTasks(Map(LAMBDA t : IF t.id = taskId THEN [t EXCEPT !.status = newStatus] ELSE t, tasks))
  /\ ev' = [op |-> "updateTaskStatus"]
  /\ MutationFrame

(* the project label of a task card:
   `projects.find(p => p.id === task.projectId)?.name || 'Unknown'` *)
projectName(ps, task) ==
  LET hits == SelectSeq(ps, LAMBDA p : p.id = Field(task, "projectId"))
  IN IF Len(hits) > 0 /\ hits[1].name # "" THEN hits[1].name ELSE "Unknown"

----------------------------------------------------------------------------
(* HTTP responses as the client sees them *)
NetErr == [kind |-> "neterr"]
Http(ok, body) == [kind |-> "http", ok |-> ok, body |-> body]

(* a request body: JSON.stringify({tasks, projects, deletedTasks}) *)
PostOf(origin, body) == [origin |-> origin, body |-> body, st |-> "sent", res |-> None]

RemoveAt(s, i) == SubSeq(s, 1, i - 1) \o SubSeq(s, i + 1, Len(s))

----------------------------------------------------------------------------
(* Server side of /api/data: app/api/data/route.ts.
   store is what the kv_store call does: "ok", "error" (an error object is
   returned and data is null) or "throw". *)
(* body.key || [] *)
OrEmpty(r, key) == IF key \in DOMAIN r THEN r[key] ELSE << >>

GET(store) ==
  IF ~dbOk THEN
    Http(TRUE, [tasks |-> << >>, projects |-> << >>, lastUpdated |-> Null, source |-> "no-db"])
  ELSE IF store = "throw" THEN
    Http(TRUE, [tasks |-> << >>, projects |-> << >>, lastUpdated |-> Null, source |-> "error"])
  ELSE IF store = "ok" /\ remote.k = "row" THEN
    Http(TRUE, [tasks |-> OrEmpty(remote.value, "tasks"),
                projects |-> OrEmpty(remote.value, "projects"),
                lastUpdated |-> Field(remote.value, "lastUpdated"),
                source |-> "supabase"])
  ELSE
    Http(TRUE, [tasks |-> << >>, projects |-> << >>, lastUpdated |-> Null, source |-> "empty"])

(* the row POST leaves in the store, and its answer *)
POSTRow(body, store) ==
  IF dbOk /\ store = "ok"
  THEN [k |-> "row", value |-> [tasks |-> OrEmpty(body, "tasks"),
                                 projects |-> OrEmpty(body, "projects"),
                                 lastUpdated |-> srvClock]]
  ELSE remote

POST(body, store) ==
  IF ~dbOk THEN Http(FALSE, [success |-> FALSE])
  ELSE IF store = "ok" THEN Http(TRUE, [success |-> TRUE, lastUpdated |-> srvClock])
  ELSE Http(FALSE, [success |-> FALSE])

StoreOutcomes == {"ok", "error", "throw"}

(* the store call has an outcome of its own only when the request reaches the
   route and the route has a client to call *)
StoreConsulted(net, store) ==
  (net \in {"gateway", "lostRequest"} \/ ~dbOk) => store = "ok"

----------------------------------------------------------------------------
(* ProjectManager: persistence helpers and the mount effect *)

(* saveToApi's request body *)
saveToApiBody(t, p, d) == [tasks |-> JsonArr(t), projects |-> JsonArr(p), deletedTasks |-> JsonArr(d)]

(* loadFromApi that does not look at the source of an OK answer *)
loadFromApi_AnySource(res) ==
  IF res.kind = "neterr" THEN None
  ELSE IF ~res.ok THEN None
  ELSE [k |-> "api", tasks |-> res.body.tasks, projects |-> res.body.projects,
        deletedTasks |-> OrEmpty(res.body, "deletedTasks")]

(* loadFromApi: null unless the answer is OK, from the store, and non-empty *)
loadFromApi(res) ==
  IF res.kind = "neterr" THEN None
  ELSE IF ~res.ok THEN None
  ELSE IF res.body.source = "supabase"
          /\ (Len(res.body.tasks) > 0 \/ Len(res.body.projects) > 0)
       THEN [k |-> "api", tasks |-> res.body.tasks, projects |-> res.body.projects,
             deletedTasks |-> OrEmpty(res.body, "deletedTasks")]
       ELSE None

(* the GET threw, was answered non-OK, or reports that the store was not read *)
GetFailed(res) ==
  \/ res.kind = "neterr"
  \/ ~res.ok
  \/ res.body.source \in {"error", "no-db"}

(* the same choice with the local group preferred *)
PickGroup_LocalFirst(remoteGroup, localGroup) == IF Len(localGroup) > 0 THEN localGroup ELSE remoteGroup

(* `apiData.x.length > 0 ? apiData.x : localX` *)
PickGroup(remoteGroup, localGroup) == IF Len(remoteGroup) > 0 THEN remoteGroup ELSE localGroup

(* `apiData.deletedTasks || localD`: an array, even an empty one, is truthy *)
PickTrash(remoteTrash, localTrash) == remoteTrash

(* load, after `await loadFromApi()` *)
LoadResolveData ==
  /\ variant = "data"
  /\ load.phase = "get" /\ getReq.k = "resp"
  /\ LET apiData == loadFromApi(getReq.res) IN
     IF apiData # None THEN
       LET newP == PickGroup(apiData.projects, load.localP)
           newT == PickGroup(apiData.tasks, load.localT)
           newD == PickTrash(apiData.deletedTasks, load.localD)
       IN /\ projects' = newP
          /\ tasks' = newT
          /\ deletedTasks' = newD
          /\ IF WriteFails(cache)
             THEN \* saveLocal throws out of load, after the three setters
                  /\ load' = [load EXCEPT !.phase = "crashed"]
                  /\ UNCHANGED << cache, syncStatus, isInitialLoad >>
             ELSE /\ cache' = saveLocal(saveLocal(saveLocal(cache, "projects", newP), "tasks", newT), "deleted", newD)
                  /\ syncStatus' = "saved"
                  /\ isInitialLoad' = FALSE
                  /\ load' = [load EXCEPT !.phase = "done"]
          /\ posts' = posts
          /\ ev' = [op |-> "loadResolved", usable |-> TRUE, failed |-> GetFailed(getReq.res)]
     ELSE
       /\ Len(posts) < MaxInFlight
       /\ posts' = Append(posts, PostOf("seed", saveToApiBody(load.localT, load.localP, load.localD)))
       /\ load' = [load EXCEPT !.phase = "seed"]
       /\ UNCHANGED << projects, tasks, deletedTasks, cache, syncStatus, isInitialLoad >>
       /\ ev' = [op |-> "loadResolved", usable |-> FALSE, failed |-> GetFailed(getReq.res)]
  /\ getReq' = None
  /\ UNCHANGED << variant, lastUpdated, saveTimer, modal, server, clock, ops, hist >>

(* the debounce timer's callback, up to its await *)
TimerFireData ==
  /\ variant = "data"
  /\ TimerDue
  /\ Len(posts) < MaxInFlight
  /\ posts' = Append(posts, PostOf("debounce", saveToApiBody(saveTimer.t, saveTimer.p, saveTimer.d)))
  /\ burstN' = 0
  /\ burstSnap' = None
  /\ syncStatus' = "syncing"
  /\ saveTimer' = None
  /\ ev' = FiredEvent(posts')
  /\ UNCHANGED << variant, tasks, projects, deletedTasks, lastUpdated, isInitialLoad, load,
                  modal, cache, getReq, server, clock, ops >>

(* a POST's awaiting continuation runs: saveToApi swallows every outcome *)
PostResolveData(i) ==
  /\ variant = "data"
  /\ i \in 1..Len(posts) /\ posts[i].st = "resp"
  /\ LET rq == posts[i]
         success == rq.res.kind = "http" /\ rq.res.ok
     IN /\ CASE rq.origin = "seed" ->
                  /\ syncStatus' = "saved"
                  /\ isInitialLoad' = FALSE
                  /\ load' = [load EXCEPT !.phase = "done"]
             [] rq.origin = "debounce" ->
                  /\ syncStatus' = "saved"
                  /\ UNCHANGED << isInitialLoad, load >>
             [] OTHER -> UNCHANGED << syncStatus, isInitialLoad, load >>
        /\ ev' = [op |-> "postResolved", origin |-> rq.origin, success |-> success]
  /\ posts' = RemoveAt(posts, i)
  /\ UNCHANGED << variant, tasks, projects, deletedTasks, lastUpdated, saveTimer, modal,
                  cache, getReq, server, clock, ops, hist >>

----------------------------------------------------------------------------
(* The network and the server between request and answer *)
GetServe(net, store) ==
  /\ getReq.k = "sent"
  /\ variant = "data"
  /\ StoreConsulted(net, store)
  /\ getReq' = [k |-> "resp",
                res |-> CASE net = "deliver" -> GET(store)
                          [] net = "gateway" -> Http(FALSE, [success |-> FALSE])
                          [] OTHER -> NetErr]
  /\ ev' = [op |-> "env"]
  /\ UNCHANGED << variant, tasks, projects, deletedTasks, lastUpdated, syncStatus, isInitialLoad,
                  saveTimer, load, modal, cache, posts, server, clock, ops, hist >>

PostServe(i, net, store) ==
  /\ variant = "data"
  /\ StoreConsulted(net, store)
  /\ i \in 1..Len(posts) /\ posts[i].st = "sent"
  /\ LET reached == net \in {"deliver", "lostResponse"}
         res == CASE net = "deliver" -> POST(posts[i].body, store)
                  [] net = "gateway" -> Http(FALSE, [success |-> FALSE])
                  [] OTHER -> NetErr
     IN /\ remote' = IF reached THEN POSTRow(posts[i].body, store) ELSE remote
        /\ srvClock' = IF reached /\ dbOk /\ store = "ok" THEN srvClock + 1 ELSE srvClock
        /\ posts' = [posts EXCEPT ![i] = [@ EXCEPT !.st = "resp", !.res = res]]
  /\ ev' = [op |-> "env"]
  /\ UNCHANGED << variant, tasks, projects, deletedTasks, lastUpdated, syncStatus, isInitialLoad,
                  saveTimer, load, modal, cache, getReq, dbOk, clock, ops, hist >>

(* time passes while a debounce window is open; a due timer runs first *)
Tick ==
  /\ ~TimerDue
  /\ TimerPending
  /\ saveTimer' = [saveTimer EXCEPT !.elapsed = IF @ + TickMs > Interval THEN Interval ELSE @ + TickMs]
  /\ ev' = [op |-> "env"]
  /\ UNCHANGED << variant, tasks, projects, deletedTasks, lastUpdated, syncStatus, isInitialLoad,
                  load, modal, cache, getReq, posts, server, clock, ops, hist >>

----------------------------------------------------------------------------
(* Initial states of the /api/data coordinator: the page has just mounted *)
TaskA == [id |-> "a", title |-> "A", status |-> "todo"]
TaskB == [id |-> "b", title |-> "B", status |-> "done", projectId |-> "p"]
TaskD == [id |-> "d", title |-> "D", status |-> "todo", deletedAt |-> 1]
ProjP == [id |-> "p", name |-> "P"]

InitCachesData ==
  { [tasks |-> Absent, projects |-> Absent, deleted |-> Absent, lastUpdated |-> Absent],
    [tasks |-> Json(<< TaskA >>), projects |-> Json(<< >>), deleted |-> Json(<< TaskD >>), lastUpdated |-> Absent] }

Row(t, p) == [k |-> "row", value |-> [tasks |-> t, projects |-> p, lastUpdated |-> 0]]

InitRemotesData ==
  { None, Row(<< TaskB >>, << ProjP >>), Row(<< TaskB >>, << >>), Row(<< >>, << >>) }

InitData ==
  /\ variant = "data"
  /\ cache \in InitCachesData
  /\ dbOk \in BOOLEAN
  /\ remote \in IF dbOk THEN InitRemotesData ELSE {None}
  /\ srvClock = 1
  /\ clock = 100
  /\ ops = 0
  /\ projects = loadLocal(cache.projects, DEFAULT_PROJECTS)
  /\ tasks = loadLocal(cache.tasks, DEFAULT_TASKS)
  /\ deletedTasks = loadLocal(cache.deleted, << >>)
  /\ syncStatus = "syncing"
  /\ load = [phase |-> "get", localT |-> tasks, localP |-> projects, localD |-> deletedTasks]
  /\ getReq = [k |-> "sent"]
  /\ isInitialLoad = TRUE
  /\ saveTimer = None
  /\ lastUpdated = Null
  /\ modal = None
  /\ posts = << >>
  /\ burstN = 0
  /\ burstSnap = None
  /\ ev = [op |-> "mount"]

MutateData ==
  \/ \E name \in {"N"} : addProject(name)
  \/ \E i \in 1..Len(projects) : updateProject([projects[i] EXCEPT !.name = "E"])
  \/ \E id \in Ids(projects) : deleteProject(id)
  \/ \E pid \in {""} : addTask("T", "todo", pid)
  \/ \E id \in Ids(tasks) : softDeleteTask(id)
  \/ \E id \in Ids(deletedTasks) : restoreTask(id)
  \/ \E id \in Ids(deletedTasks) : permanentDeleteTask(id)
  \/ emptyTrash
  \/ \E i \in 1..Len(tasks) : updateTask([tasks[i] EXCEPT !.title = "U"])
  \/ \E id \in Ids(tasks) : updateTaskStatus(id, "done")

NetOutcomes == {"deliver", "gateway", "lostRequest", "lostResponse"}

NextData ==
  \/ MutateData
  \/ LoadResolveData
  \/ TimerFireData
  \/ \E i \in 1..MaxInFlight : PostResolveData(i)
  \/ \E net \in NetOutcomes \ {"lostResponse"}, store \in StoreOutcomes : GetServe(net, store)
  \/ \E i \in 1..MaxInFlight, net \in NetOutcomes, store \in StoreOutcomes : PostServe(i, net, store)
  \/ Tick

Spec == InitData /\ [][NextData]_vars

(* The same coordinator on a healthy network and store: every request is
   delivered and answered with success.  Timers run, responses arrive and
   continuations are scheduled, so each of these steps is weakly fair; whether
   the user mutates is left open. *)
InitLive == InitData /\ dbOk

NextLive ==
  \/ MutateData
  \/ LoadResolveData
  \/ TimerFireData
  \/ \E i \in 1..MaxInFlight : PostResolveData(i)
  \/ GetServe("deliver", "ok")
  \/ \E i \in 1..MaxInFlight : PostServe(i, "deliver", "ok")
  \/ Tick

FairLive ==
  /\ WF_vars(LoadResolveData)
  /\ WF_vars(TimerFireData)
  /\ WF_vars(Tick)
  /\ WF_vars(GetServe("deliver", "ok"))
  /\ \A i \in 1..MaxInFlight : WF_vars(PostServe(i, "deliver", "ok")) /\ WF_vars(PostResolveData(i))

SpecLive == InitLive /\ [][NextLive]_vars /\ FairLive

(* The same coordinator in a browser whose localStorage fills up at some
   point: from then on every setItem throws; reads still work *)
Full(c) == [key \in DOMAIN c \cup {"quota"} |-> IF key = "quota" THEN "full" ELSE c[key]]

StorageFills ==
  /\ variant = "data"
  /\ ~WriteFails(cache)
  /\ cache' = Full(cache)
  /\ ev' = [op |-> "env"]
  /\ UNCHANGED << variant, tasks, projects, deletedTasks, lastUpdated, syncStatus, isInitialLoad,
                  saveTimer, load, modal, getReq, posts, server, clock, ops, hist >>

NextQuota ==
  \/ NextData
  \/ StorageFills

SpecQuota == InitData /\ [][NextQuota]_vars

----------------------------------------------------------------------------
(* Versioned coordinator: ProjectManagementPage (part_001), endpoint /api/sort.
   Timestamps are strings; Null is the JavaScript null. *)
Now == "c" \o ToString(clock)

SORT_DEFAULT_PROJECTS == << [id |-> "proj-1", name |-> "Gem Dashboard"] >>

(* Server side of /api/sort: one document {tasks, projects, version, lastUpdated},
   returned by GET as stored and replaced as a whole by POST *)
GETSort(store) ==
  IF store # "ok" THEN Http(FALSE, [success |-> FALSE])
  ELSE IF remote.k = "row" THEN Http(TRUE, remote.value)
  ELSE Http(TRUE, [tasks |-> << >>, projects |-> << >>, lastUpdated |-> Null])

POSTRowSort(body, store) ==
  IF store = "ok"
  THEN [k |-> "row", value |-> [tasks |-> body.tasks, projects |-> body.projects,
                                 version |-> body.version, lastUpdated |-> "s" \o ToString(srvClock)]]
  ELSE remote

POSTSort(body, store) ==
  IF store = "ok" THEN Http(TRUE, [success |-> TRUE, lastUpdated |-> "s" \o ToString(srvClock)])
  ELSE Http(FALSE, [success |-> FALSE])

(* saveToApi's request body *)
saveToApiBodySort(tasksData, projectsData) ==
  [tasks |-> JsonArr(tasksData), projects |-> JsonArr(projectsData), version |-> EXPECTED_VERSION]

(* debouncedSave(tasksData, projectsData) *)
debouncedSaveSort(tasksData, projectsData) ==
  /\ cache' = [cache EXCEPT !.tasks = Json(JsonArr(tasksData)),
                            !.projects = Json(JsonArr(projectsData)),
                            !.lastUpdated = Json(Now)]
  /\ saveTimer' = [k |-> "timer", t |-> tasksData, p |-> projectsData, d |-> << >>, elapsed |-> 0]

(* the "save on data changes" effect, run after a render that changed tasks or projects *)
SaveEffect(initialLoad, tasksData, projectsData) ==
  IF initialLoad THEN UNCHANGED << cache, saveTimer >>
  ELSE debouncedSaveSort(tasksData, projectsData)

(* the acceptance test without the version comparison *)
AcceptsRemote_AnyVersion(data) == "tasks" \in DOMAIN data

(* `data.tasks && data.version === 2` *)
AcceptsRemote(data) ==
  /\ "tasks" \in DOMAIN data
  /\ "version" \in DOMAIN data
  /\ data.version = EXPECTED_VERSION

(* loadData up to its first await; JSON.parse of an undecodable key throws out of loadData *)
LoadStartSort(c) ==
  IF c.tasks.k = "bad" \/ c.projects.k = "bad" THEN
    /\ tasks = << >>
    /\ projects = SORT_DEFAULT_PROJECTS
    /\ lastUpdated = Null
    /\ syncStatus = "idle"
    /\ load = [phase |-> "crashed", localT |-> << >>, localP |-> << >>, localD |-> << >>]
    /\ getReq = None
  ELSE
    LET localTasks == IF c.tasks.k = "json" THEN c.tasks.v ELSE << >>
        localProjects == IF c.projects.k = "json" THEN c.projects.v ELSE SORT_DEFAULT_PROJECTS
    IN /\ tasks = localTasks
       /\ projects = localProjects
       /\ lastUpdated = (IF c.lastUpdated.k = "json" THEN c.lastUpdated.v ELSE Null)
       /\ syncStatus = "syncing"
       /\ load = [phase |-> "get", localT |-> localTasks, localP |-> localProjects, localD |-> << >>]
       /\ getReq = [k |-> "sent"]

(* loadData after `await fetch('/api/sort')` *)
LoadResolveSort ==
  /\ variant = "sort"
  /\ load.phase = "get" /\ getReq.k = "resp"
  /\ getReq' = None
  /\ LET res == getReq.res IN
     IF res.kind = "neterr" THEN
       /\ syncStatus' = "error"
       /\ isInitialLoad' = FALSE
       /\ load' = [load EXCEPT !.phase = "done"]
       /\ ev' = [op |-> "loadResolved", usable |-> FALSE, failed |-> TRUE]
       /\ UNCHANGED << tasks, projects, lastUpdated, cache, saveTimer, posts, clock >>
     ELSE IF ~res.ok THEN
       /\ isInitialLoad' = FALSE
       /\ load' = [load EXCEPT !.phase = "done"]
       /\ ev' = [op |-> "loadResolved", usable |-> FALSE, failed |-> TRUE]
       /\ UNCHANGED << tasks, projects, lastUpdated, syncStatus, cache, saveTimer, posts, clock >>
     ELSE IF AcceptsRemote(res.body) THEN
       LET data == res.body
           hasProjects == "projects" \in DOMAIN data
           newP == IF hasProjects THEN data.projects ELSE projects
           c1 == [cache EXCEPT !.tasks = Json(JsonArr(data.tasks))]
           c2 == IF hasProjects THEN [c1 EXCEPT !.projects = Json(JsonArr(data.projects))] ELSE c1
           c3 == IF data.lastUpdated # Null THEN [c2 EXCEPT !.lastUpdated = Json(data.lastUpdated)] ELSE c2
       IN /\ tasks' = data.tasks
          /\ projects' = newP
          /\ lastUpdated' = data.lastUpdated
          /\ syncStatus' = "idle"
          /\ isInitialLoad' = FALSE
          /\ load' = [load EXCEPT !.phase = "done"]
          \* the re-render runs the save effect with isInitialLoad already false
          /\ cache' = [c3 EXCEPT !.tasks = Json(JsonArr(data.tasks)),
                                 !.projects = Json(JsonArr(newP)),
                                 !.lastUpdated = Json(Now)]
          /\ saveTimer' = [k |-> "timer", t |-> data.tasks, p |-> newP, d |-> << >>, elapsed |-> 0]
          /\ clock' = clock + 1
          /\ posts' = posts
          /\ ev' = [op |-> "loadResolved", usable |-> TRUE, failed |-> FALSE]
     ELSE IF Len(load.localT) > 0 THEN
       /\ Len(posts) < MaxInFlight
       /\ syncStatus' = "syncing"
       /\ posts' = Append(posts, PostOf("seed", saveToApiBodySort(load.localT, load.localP)))
       /\ load' = [load EXCEPT !.phase = "seed"]
       /\ ev' = [op |-> "loadResolved", usable |-> FALSE, failed |-> FALSE]
       /\ UNCHANGED << tasks, projects, lastUpdated, isInitialLoad, cache, saveTimer, clock >>
     ELSE
       /\ syncStatus' = "idle"
       /\ isInitialLoad' = FALSE
       /\ load' = [load EXCEPT !.phase = "done"]
       /\ ev' = [op |-> "loadResolved", usable |-> FALSE, failed |-> FALSE]
       /\ UNCHANGED << tasks, projects, lastUpdated, cache, saveTimer, posts, clock >>
  /\ UNCHANGED << variant, deletedTasks, modal, server, ops, hist >>

(* the debounce timer runs saveToApi, which is not awaited *)
TimerFireSort ==
  /\ variant = "sort"
  /\ TimerDue
  /\ Len(posts) < MaxInFlight
  /\ posts' = Append(posts, PostOf("debounce", saveToApiBodySort(saveTimer.t, saveTimer.p)))
  /\ burstN' = 0
  /\ burstSnap' = None
  /\ syncStatus' = "syncing"
  /\ saveTimer' = None
  /\ ev' = FiredEvent(posts')
  /\ UNCHANGED << variant, tasks, projects, deletedTasks, lastUpdated, isInitialLoad, load,
                  modal, cache, getReq, server, clock, ops >>

(* saveToApi after its await; for the seed POST loadData then runs to its end *)
PostResolveSort(i) ==
  /\ variant = "sort"
  /\ i \in 1..Len(posts) /\ posts[i].st = "resp"
  /\ LET rq == posts[i]
         success == rq.res.kind = "http" /\ rq.res.ok
     IN /\ lastUpdated' = IF success THEN rq.res.body.lastUpdated ELSE lastUpdated
        /\ IF rq.origin = "seed"
           THEN /\ syncStatus' = "idle"
                /\ isInitialLoad' = FALSE
                /\ load' = [load EXCEPT !.phase = "done"]
           ELSE /\ syncStatus' = IF success THEN "idle" ELSE "error"
                /\ UNCHANGED << isInitialLoad, load >>
        \* ahead: how many POSTs issued before this one are still outstanding
        /\ ev' = [op |-> "postResolved", origin |-> rq.origin, success |-> success, ahead |-> i - 1]
  /\ posts' = RemoveAt(posts, i)
  /\ UNCHANGED << variant, tasks, projects, deletedTasks, saveTimer, modal,
                  cache, getReq, server, clock, ops, hist >>

GetServeSort(net, store) ==
  /\ variant = "sort"
  /\ StoreConsulted(net, store)
  /\ getReq.k = "sent"
  /\ getReq' = [k |-> "resp", res |-> IF net = "deliver" THEN GETSort(store) ELSE NetErr]
  /\ ev' = [op |-> "env"]
  /\ UNCHANGED << variant, tasks, projects, deletedTasks, lastUpdated, syncStatus, isInitialLoad,
                  saveTimer, load, modal, cache, posts, server, clock, ops, hist >>

PostServeSort(i, net, store) ==
  /\ variant = "sort"
  /\ StoreConsulted(net, store)
  /\ i \in 1..Len(posts) /\ posts[i].st = "sent"
  /\ LET reached == net \in {"deliver", "lostResponse"}
         res == IF net = "deliver" THEN POSTSort(posts[i].body, store) ELSE NetErr
     IN /\ remote' = IF reached THEN POSTRowSort(posts[i].body, store) ELSE remote
        /\ srvClock' = IF reached /\ store = "ok" THEN srvClock + 1 ELSE srvClock
        /\ posts' = [posts EXCEPT ![i] = [@ EXCEPT !.st = "resp", !.res = res]]
  /\ ev' = [op |-> "env"]
  /\ UNCHANGED << variant, tasks, projects, deletedTasks, lastUpdated, syncStatus, isInitialLoad,
                  saveTimer, load, modal, cache, getReq, dbOk, clock, ops, hist >>

----------------------------------------------------------------------------
(* ProjectManagementPage: task handlers.  Each ends with the render that runs
   the save effect on the new tasks. *)
SortMutationFrame ==
  /\ burstN' = burstN + 1
  /\ burstSnap' = Snapshot(tasks', projects, << >>)
  /\ ops' = ops + 1
  /\ clock' = clock + 1
  /\ SaveEffect(isInitialLoad, tasks', projects)
  /\ UNCHANGED << variant, projects, deletedTasks, lastUpdated, syncStatus, isInitialLoad,
                  load, getReq, posts, server >>

ModalClosed == modal.k = "none"

(* handleNewTask / handleEditTask: open the task form *)
handleNewTask ==
  /\ variant = "sort" /\ ModalClosed /\ ops < MaxOps
  /\ modal' = [k |-> "open", task |-> None]
  /\ ev' = [op |-> "openModal"]
  /\ UNCHANGED << variant, tasks, projects, deletedTasks, lastUpdated, syncStatus, isInitialLoad,
                  saveTimer, load, cache, getReq, posts, server, clock, ops, hist >>

handleEditTask(task) ==
  /\ variant = "sort" /\ ModalClosed /\ ops < MaxOps
  /\ modal' = [k |-> "open", task |-> task]
  /\ ev' = [op |-> "openModal"]
  /\ UNCHANGED << variant, tasks, projects, deletedTasks, lastUpdated, syncStatus, isInitialLoad,
                  saveTimer, load, cache, getReq, posts, server, clock, ops, hist >>

(* TaskModal.handleSubmit: the task the form hands to onSave *)
SubmittedCompletedAt(task, status) ==
  IF status = "done" /\ (task = None \/ task.completedAt = Null) THEN Now
  ELSE IF task = None THEN Null ELSE task.completedAt

handleSubmit(task, title, status) ==
  [id |-> IF task = None THEN "task-" \o ToString(clock) ELSE task.id,
   title |-> title,
   status |-> status,
   completedAt |-> SubmittedCompletedAt(task, status)]

(* handleSaveTask *)
handleSaveTask(prev, task) ==
  IF task.id \in Ids(prev)
  THEN Map(LAMBDA t : IF t.id = task.id THEN task ELSE t, prev)
  ELSE << task >> \o prev

(* the form is submitted: handleSubmit, onSave = handleSaveTask, onClose *)
SubmitTask(title, status) ==
  /\ variant = "sort" /\ ~ModalClosed /\ ops < MaxOps /\ ~TimerDue
  /\ Trim(title) # ""
  /\ tasks' = handleSaveTask(tasks, handleSubmit(modal.task, title, status))
  /\ modal' = None
  /\ ev' = [op |-> "saveTask", edit |-> modal.task # None]
  /\ SortMutationFrame

handleDeleteTask(id) ==
  /\ variant = "sort" /\ ModalClosed /\ ops < MaxOps /\ ~TimerDue
  /\ tasks' = Filter(tasks, LAMBDA t : t.id # id)
  /\ ev' = [op |-> "deleteTask"]
  /\ UNCHANGED modal
  /\ SortMutationFrame

(* the same update without the reset of completedAt on leaving 'done' *)
StatusChanged_KeepsStamp(t, status) ==
  [t EXCEPT !.status = status,
            !.completedAt = IF status = "done" /\ t.completedAt = Null THEN Now ELSE t.completedAt]

StatusChanged(t, status) ==
  [t EXCEPT !.status = status,
            !.completedAt = IF status = "done" /\ t.completedAt = Null THEN Now
                            ELSE IF status # "done" THEN Null ELSE t.completedAt]

handleStatusChange(id, status) ==
  /\ variant = "sort" /\ ModalClosed /\ ops < MaxOps /\ ~TimerDue
  /\ tasks' = Map(LAMBDA t : IF t.id # id THEN t ELSE StatusChanged(t, status), tasks)
  /\ ev' = [op |-> "statusChange", id |-> id, status |-> status]
  /\ UNCHANGED modal
  /\ SortMutationFrame

----------------------------------------------------------------------------
(* Initial states of the versioned coordinator: the page has just mounted *)
SortA == [id |-> "a", title |-> "A", status |-> "done", completedAt |-> "c1"]
SortB == [id |-> "b", title |-> "B", status |-> "todo", completedAt |-> Null]

InitCachesSort ==
  { [tasks |-> Absent, projects |-> Absent, deleted |-> Absent, lastUpdated |-> Absent],
    [tasks |-> Json(<< SortA >>), projects |-> Json(SORT_DEFAULT_PROJECTS), deleted |-> Absent, lastUpdated |-> Json("c1")],
    [tasks |-> Corrupt, projects |-> Absent, deleted |-> Absent, lastUpdated |-> Absent] }

RowSort(t, p, v) == [k |-> "row", value |-> [tasks |-> t, projects |-> p, version |-> v, lastUpdated |-> "s0"]]

InitRemotesSort ==
  { None,
    RowSort(<< SortB >>, << ProjP >>, 2),
    RowSort(<< >>, << >>, 2),
    RowSort(<< SortB >>, << ProjP >>, 1),
    [k |-> "row", value |-> [tasks |-> << SortB >>, lastUpdated |-> "s0"]] }

InitSort ==
  /\ variant = "sort"
  /\ cache \in InitCachesSort
  /\ remote \in InitRemotesSort
  /\ dbOk = TRUE
  /\ srvClock = 1
  /\ clock = 100
  /\ ops = 0
  /\ LoadStartSort(cache)
  /\ deletedTasks = << >>
  /\ isInitialLoad = TRUE
  /\ saveTimer = None
  /\ modal = None
  /\ posts = << >>
  /\ burstN = 0
  /\ burstSnap = None
  /\ ev = [op |-> "mount"]

SortStatusInputs == {"todo", "done"}

MutateSort ==
  \/ handleNewTask
  \/ \E i \in 1..Len(tasks) : handleEditTask(tasks[i])
  \/ \E st \in SortStatusInputs : SubmitTask("T", st)
  \/ \E id \in Ids(tasks) : handleDeleteTask(id)
  \/ \E id \in Ids(tasks), st \in SortStatusInputs : handleStatusChange(id, st)

NextSort ==
  \/ MutateSort
  \/ LoadResolveSort
  \/ TimerFireSort
  \/ \E i \in 1..MaxInFlight : PostResolveSort(i)
  \/ \E net \in {"deliver", "lostRequest"}, store \in {"ok", "error"} : GetServeSort(net, store)
  \/ \E i \in 1..MaxInFlight, net \in {"deliver", "lostRequest", "lostResponse"}, store \in {"ok", "error"} : PostServeSort(i, net, store)
  \/ Tick

SpecSort == InitSort /\ [][NextSort]_vars

----------------------------------------------------------------------------
(* Trash cycle of the /api/data coordinator.  The run starts after the mount
   effect has settled on a remote document of MAX_DELETED + TrashExtra tasks
   (the trash is empty then); the user soft-deletes the head of the live list
   until MAX_DELETED mutations have been made and then acts freely on the first
   TrashPick live tasks and on the two ends of the trash.  Every mutation
   arrives within the debounce window of the one before. *)
TrashTask(n) == [id |-> "t" \o ToString(n), title |-> "T", status |-> "todo"]
TrashLive == [n \in 1..(MAX_DELETED + TrashExtra) |-> TrashTask(n)]

UnknownId == "zz"

EndIds(s) == IF Len(s) = 0 THEN {} ELSE {s[1].id, s[Len(s)].id}

InitTrash ==
  /\ variant = "data"
  /\ tasks = TrashLive
  /\ projects = << ProjP >>
  /\ deletedTasks = << >>
  /\ cache = [tasks |-> Json(JsonArr(tasks)), projects |-> Json(JsonArr(projects)),
              deleted |-> Json(<< >>), lastUpdated |-> Absent]
  /\ dbOk = TRUE
  /\ remote = Row(TrashLive, << ProjP >>)
  /\ srvClock = 1
  /\ clock = 100
  /\ ops = 0
  /\ syncStatus = "saved"
  /\ load = [phase |-> "settled", budget |-> MAX_DELETED + TrashExtra,
             localT |-> << >>, localP |-> << >>, localD |-> << >>]
  /\ getReq = None
  /\ isInitialLoad = FALSE
  /\ saveTimer = None
  /\ lastUpdated = Null
  /\ modal = None
  /\ posts = << >>
  /\ burstN = 0
  /\ burstSnap = None
  /\ ev = [op |-> "mount"]

Filling == ops < MAX_DELETED

NextTrash ==
  \/ \E i \in 1..Len(tasks) : i <= (IF Filling THEN 1 ELSE TrashPick) /\ softDeleteTask(tasks[i].id)
  \/ ~Filling /\ \E id \in EndIds(deletedTasks) \cup {UnknownId} : restoreTask(id)
  \/ ~Filling /\ \E id \in EndIds(deletedTasks) : permanentDeleteTask(id)
  \/ ~Filling /\ emptyTrash

SpecTrash == InitTrash /\ [][NextTrash]_vars

(* Mount of the /api/data coordinator over a cache whose trash an earlier
   session left at capacity *)
FullTrash ==
  [i \in 1..MAX_DELETED |->
     [id |-> "d" \o ToString(i), title |-> "D", status |-> "todo", deletedAt |-> MAX_DELETED + 1 - i]]

InitCap ==
  /\ variant = "data"
  /\ cache = [tasks |-> Json(<< TaskA >>), projects |-> Json(<< >>),
              deleted |-> Json(FullTrash), lastUpdated |-> Absent]
  /\ dbOk = TRUE
  /\ remote \in {None, Row(<< TaskB >>, << ProjP >>)}
  /\ srvClock = 1
  /\ clock = 100
  /\ ops = 0
  /\ projects = loadLocal(cache.projects, DEFAULT_PROJECTS)
  /\ tasks = loadLocal(cache.tasks, DEFAULT_TASKS)
  /\ deletedTasks = loadLocal(cache.deleted, << >>)
  /\ syncStatus = "syncing"
  /\ load = [phase |-> "get", localT |-> tasks, localP |-> projects, localD |-> deletedTasks]
  /\ getReq = [k |-> "sent"]
  /\ isInitialLoad = TRUE
  /\ saveTimer = None
  /\ lastUpdated = Null
  /\ modal = None
  /\ posts = << >>
  /\ burstN = 0
  /\ burstSnap = None
  /\ ev = [op |-> "mount"]

MutateCap ==
  \/ \E id \in Ids(tasks) : softDeleteTask(id)
  \/ \E id \in EndIds(deletedTasks) : restoreTask(id)
  \/ \E id \in EndIds(deletedTasks) : permanentDeleteTask(id)
  \/ emptyTrash
  \/ addTask("T", "todo", "")

NextCap ==
  \/ MutateCap
  \/ LoadResolveData
  \/ TimerFireData
  \/ \E i \in 1..MaxInFlight : PostResolveData(i)
  \/ \E net \in {"deliver", "lostRequest"}, store \in {"ok", "throw"} : GetServe(net, store)
  \/ \E i \in 1..MaxInFlight, net \in {"deliver", "lostRequest"}, store \in {"ok"} : PostServe(i, net, store)
  \/ Tick

SpecCap == InitCap /\ [][NextCap]_vars

(* Editing session of the /api/data coordinator: the page mounts over a used
   cache and the user makes up to MaxEditOps calls, valid or not, each within
   the debounce window of the one before, while the load runs its course. *)
InitEdit ==
  /\ variant = "data"
  /\ cache = [tasks |-> Json(<< TaskB >>), projects |-> Json(<< ProjP >>),
              deleted |-> Json(<< TaskD >>), lastUpdated |-> Absent]
  /\ dbOk = TRUE
  /\ remote \in {None, Row(<< Restored(TaskD), TaskA >>, << >>)}
  /\ srvClock = 1
  /\ clock = 100
  /\ ops = 0
  /\ projects = loadLocal(cache.projects, DEFAULT_PROJECTS)
  /\ tasks = loadLocal(cache.tasks, DEFAULT_TASKS)
  /\ deletedTasks = loadLocal(cache.deleted, << >>)
  /\ syncStatus = "syncing"
  /\ load = [phase |-> "get", budget |-> MaxEditOps,
             localT |-> tasks, localP |-> projects, localD |-> deletedTasks]
  /\ getReq = [k |-> "sent"]
  /\ isInitialLoad = TRUE
  /\ saveTimer = None
  /\ lastUpdated = Null
  /\ modal = None
  /\ posts = << >>
  /\ burstN = 0
  /\ burstSnap = None
  /\ ev = [op |-> "mount"]

(* calls the forms allow although a required field is blank or the id is stale *)
InvalidCalls ==
  \/ \E title \in {"", " "} : addTask(title, "todo", "")
  \/ \E i \in 1..Len(tasks) : updateTask([tasks[i] EXCEPT !.title = ""])
  \/ addProject(" ")
  \/ restoreTask(UnknownId)

NextEdit ==
  \/ MutateData
  \/ InvalidCalls
  \/ LoadResolveData
  \/ GetServe("deliver", "ok")
  \/ \E i \in 1..MaxInFlight : PostServe(i, "deliver", "ok")
  \/ \E i \in 1..MaxInFlight : PostResolveData(i)

SpecEdit == InitEdit /\ [][NextEdit]_vars

----------------------------------------------------------------------------
(* The /api/data route on its own: any client may call GET and POST, in any
   order, with any of these bodies *)
RouteBodies ==
  { saveToApiBody(t, p, d) : t \in {<< >>, << TaskA >>}, p \in {<< >>, << ProjP >>},
                             d \in {<< >>, << TaskD >>} }
    \cup { [projects |-> << ProjP >>] }

RouteFrame ==
  UNCHANGED << variant, tasks, projects, deletedTasks, lastUpdated, syncStatus, isInitialLoad,
               saveTimer, load, modal, cache, getReq, posts, dbOk, clock, ops, hist >>

RouteGet(store) ==
  /\ StoreConsulted("deliver", store)
  /\ ev' = [op |-> "routeGet", store |-> store, hadRow |-> remote.k = "row", res |-> GET(store)]
  /\ UNCHANGED << remote, srvClock >>
  /\ RouteFrame

RoutePost(body, store) ==
  /\ StoreConsulted("deliver", store)
  /\ srvClock <= MaxRoutePosts
  /\ remote' = POSTRow(body, store)
  /\ srvClock' = IF dbOk /\ store = "ok" THEN srvClock + 1 ELSE srvClock
  /\ ev' = [op |-> "routePost", body |-> body, res |-> POST(body, store)]
  /\ RouteFrame

InitRoute ==
  /\ variant = "data"
  /\ dbOk \in BOOLEAN
  /\ remote \in IF dbOk THEN {None, Row(<< TaskB >>, << ProjP >>)} ELSE {None}
  /\ srvClock = 1
  /\ clock = 100
  /\ ops = 0
  /\ tasks = << >> /\ projects = << >> /\ deletedTasks = << >>
  /\ cache = [tasks |-> Absent, projects |-> Absent, deleted |-> Absent, lastUpdated |-> Absent]
  /\ syncStatus = "idle"
  /\ load = [phase |-> "settled", budget |-> 0, localT |-> << >>, localP |-> << >>, localD |-> << >>]
  /\ getReq = None
  /\ isInitialLoad = TRUE
  /\ saveTimer = None
  /\ lastUpdated = Null
  /\ modal = None
  /\ posts = << >>
  /\ burstN = 0
  /\ burstSnap = None
  /\ ev = [op |-> "mount"]

NextRoute ==
  \/ \E store \in StoreOutcomes : RouteGet(store)
  \/ \E body \in RouteBodies, store \in StoreOutcomes : RoutePost(body, store)

SpecRoute == InitRoute /\ [][NextRoute]_vars

(* Both coordinators, for the properties stated of both *)
InitBoth == InitData \/ InitSort
NextBoth == NextData \/ NextSort
SpecBoth == InitBoth /\ [][NextBoth]_vars

----------------------------------------------------------------------------
(* Properties *)

MutationOps == {"addProject", "updateProject", "deleteProject", "addTask", "softDeleteTask",
                "restoreTask", "permanentDeleteTask", "emptyTrash", "updateTask",
                "updateTaskStatus", "saveTask", "deleteTask", "statusChange"}

(* the step is the continuation of the load-time GET *)
LoadResolving == load.phase = "get" /\ getReq.k = "resp" /\ load'.phase # "get"

(* the step issues exactly one POST, with this body *)
IssuesOnePost(body) ==
  /\ Len(posts') = Len(posts) + 1
  /\ SubSeq(posts', 1, Len(posts)) = posts
  /\ posts'[Len(posts')].body = body
IssuesNoPost == Len(posts') <= Len(posts)

TimerSnapshot == Snapshot(saveTimer.t, saveTimer.p, saveTimer.d)

(* C1: debounce coalescing.  While mutations have arrived since the debounce
   timer last ran (each of them before the timer was due), exactly one timer is
   pending and it holds the snapshot produced by the last of them; when the
   timer runs it issues exactly one POST and that POST carries that snapshot. *)
C1_DebounceCoalescing ==
  /\ (burstN > 0 => TimerPending /\ TimerSnapshot = burstSnap)
  /\ (ev.op = "timerFired" /\ ev.n > 0 => ev.issued = 1 /\ ev.carried)

(* C2: write-through.  Every mutation of the /api/data coordinator leaves, in
   the same step, the three cache keys holding the encoding of the resulting
   tasks, projects and trash, and issues no POST in that step; what a mount
   would decode from the cache is then exactly the snapshot the mutation
   produced. *)
C2_WriteThrough ==
  [][ops' = ops + 1 =>
       /\ cache'.tasks = Json(JsonArr(tasks'))
       /\ cache'.projects = Json(JsonArr(projects'))
       /\ cache'.deleted = Json(JsonArr(deletedTasks'))
       /\ posts' = posts
       /\ CacheSnapshot(cache') = Snapshot(tasks', projects', deletedTasks')]_vars

C2_Witness ==
  /\ ev.op = "softDeleteTask"
  /\ tasks = << >>
  /\ Len(deletedTasks) = 2
  /\ cache.deleted = Json(JsonArr(deletedTasks))
  /\ getReq.k = "sent"

(* C3: when a debounced POST of the /api/data coordinator resolves, the sync
   status is 'saved' if it succeeded and 'error' if it failed. *)
C3_PostOutcomeStatus ==
  ev.op = "postResolved" /\ ev.origin = "debounce" =>
    syncStatus = (IF ev.success THEN "saved" ELSE "error")

(* C4: in both coordinators a remote operation that fails (a GET or POST that
   throws, is answered non-OK or reports non-success) leaves the in-memory
   tasks, projects and trash and every cache key as they were. *)
C4_FailureKeepsState ==
  [][((ev'.op = "loadResolved" /\ ev'.failed) \/ (ev'.op = "postResolved" /\ ~ev'.success)) =>
       /\ tasks' = tasks
       /\ projects' = projects
       /\ deletedTasks' = deletedTasks
       /\ cache' = cache]_vars

C4_Witness ==
  /\ ev.op = "loadResolved" /\ ev.failed
  /\ Len(tasks) > 0
  /\ Len(deletedTasks) > 0
  /\ cache.deleted # Absent

(* an OK answer whose data was read from the store *)
Authoritative(res) == res.kind = "http" /\ res.ok /\ res.body.source = "supabase"

(* C5: reconciliation precedence.  When the load-time GET of the /api/data
   coordinator returns authoritative data with non-empty tasks and non-empty
   projects, the in-memory tasks and projects after the load are the remote
   ones, whatever the cache held, and the cache keys are overwritten with them. *)
C5_RemoteWins ==
  [][(variant = "data" /\ LoadResolving /\ Authoritative(getReq.res)
        /\ Len(getReq.res.body.tasks) > 0 /\ Len(getReq.res.body.projects) > 0) =>
       /\ tasks' = getReq.res.body.tasks
       /\ projects' = getReq.res.body.projects
       /\ cache'.tasks = Json(JsonArr(getReq.res.body.tasks))
       /\ cache'.projects = Json(JsonArr(getReq.res.body.projects))]_vars

C5_Witness ==
  /\ variant = "data"
  /\ ev.op = "loadResolved" /\ ev.usable
  /\ load.localT = << TaskA >> /\ load.localP = << >>
  /\ tasks = << TaskB >> /\ projects = << ProjP >>
  /\ cache.tasks = Json(<< TaskB >>) /\ cache.projects = Json(<< ProjP >>)

(* the group the per-group policy prescribes: remote if non-empty, else local *)
Reconciled(remoteGroup, localGroup) == IF Len(remoteGroup) > 0 THEN remoteGroup ELSE localGroup

(* C6: per-group reconciliation.  When the load-time GET returns authoritative
   data, each of tasks, projects and trash ends up equal to the remote group if
   that is non-empty and to the local-cache group otherwise, in memory and in
   the cache; a non-empty local trash survives a remote document without trash. *)
C6_PerGroupReconciliation ==
  [][(variant = "data" /\ LoadResolving /\ ev'.usable) =>
       LET body == getReq.res.body
           local == CacheSnapshot(cache)
           t == Reconciled(body.tasks, local.tasks)
           p == Reconciled(body.projects, local.projects)
           d == Reconciled(OrEmpty(body, "deletedTasks"), local.deleted)
       IN /\ tasks' = t /\ projects' = p /\ deletedTasks' = d
          /\ CacheSnapshot(cache') = Snapshot(t, p, d)]_vars

(* the load-time GET gave no usable remote data *)
Unusable(res) ==
  ~(Authoritative(res) /\ (Len(res.body.tasks) > 0 \/ Len(res.body.projects) > 0))

(* C7: fallback.  When the load-time GET of the /api/data coordinator yields no
   usable remote data, memory keeps the local-cache snapshot (defaults for
   absent keys) and exactly that snapshot is pushed by one POST. *)
C7_FallbackPushesLocal ==
  [][(variant = "data" /\ LoadResolving /\ Unusable(getReq.res)) =>
       LET local == CacheSnapshot(cache') IN
       /\ tasks' = tasks /\ projects' = projects /\ deletedTasks' = deletedTasks
       /\ cache' = cache
       /\ Snapshot(tasks', projects', deletedTasks') = Snapshot(local.tasks, local.projects, local.deleted)
       /\ IssuesOnePost(saveToApiBody(local.tasks, local.projects, local.deleted))]_vars

(* the local snapshot of the versioned coordinator, as loadData decodes it *)
SortLocalTasks(c) == IF c.tasks.k = "json" THEN c.tasks.v ELSE << >>
SortLocalProjects(c) == IF c.projects.k = "json" THEN c.projects.v ELSE SORT_DEFAULT_PROJECTS

(* the GET was answered OK with a document the version gate must refuse *)
WrongVersion(res) ==
  /\ res.kind = "http" /\ res.ok
  /\ ("version" \notin DOMAIN res.body \/ res.body.version # EXPECTED_VERSION)

(* C8 as stated: a remote document is accepted only with version 2; with any
   other or missing version memory and cache keep the local snapshot and the
   local snapshot is POSTed tagged version 2. *)
C8_VersionGate_Original ==
  [][(variant = "sort" /\ LoadResolving /\ WrongVersion(getReq.res)) =>
       /\ tasks' = tasks /\ projects' = projects /\ cache' = cache
       /\ IssuesOnePost(saveToApiBodySort(SortLocalTasks(cache), SortLocalProjects(cache)))]_vars

(* C8 amended: a remote document is accepted only with version 2; with any
   other or missing version memory and cache keep the local snapshot, and the
   local snapshot is POSTed tagged version 2 when the local task list is
   non-empty; with no local task nothing is POSTed. *)
C8_VersionGate ==
  [][(variant = "sort" /\ LoadResolving) =>
       /\ (ev'.usable => /\ "version" \in DOMAIN getReq.res.body
                          /\ getReq.res.body.version = EXPECTED_VERSION)
       /\ (WrongVersion(getReq.res) =>
             /\ tasks' = tasks /\ projects' = projects /\ cache' = cache
             /\ IF Len(SortLocalTasks(cache)) > 0
                THEN IssuesOnePost(saveToApiBodySort(SortLocalTasks(cache), SortLocalProjects(cache)))
                ELSE IssuesNoPost)]_vars

C8_Witness ==
  /\ variant = "sort"
  /\ ev.op = "loadResolved" /\ ~ev.usable /\ ~ev.failed
  /\ remote.k = "row" /\ "version" \in DOMAIN remote.value /\ remote.value.version # EXPECTED_VERSION
  /\ tasks = << SortA >>
  /\ Len(posts) = 1 /\ posts[1].origin = "seed"
  /\ posts[1].body.version = EXPECTED_VERSION /\ posts[1].body.tasks = << SortA >>

(* C9: a remote document of the expected version that is fully empty does not
   win: memory and cache keep the local snapshot, which is pushed when there is
   a local task to push. *)
C9_EmptyRemoteLoses ==
  [][(variant = "sort" /\ LoadResolving
        /\ getReq.res.kind = "http" /\ getReq.res.ok
        /\ AcceptsRemote(getReq.res.body)
        /\ Len(getReq.res.body.tasks) = 0
        /\ Len(OrEmpty(getReq.res.body, "projects")) = 0) =>
       /\ tasks' = tasks /\ projects' = projects
       /\ cache'.tasks = cache.tasks /\ cache'.projects = cache.projects
       /\ (Len(SortLocalTasks(cache)) > 0 =>
             IssuesOnePost(saveToApiBodySort(SortLocalTasks(cache), SortLocalProjects(cache))))]_vars

(* C10: completedAt invariant of the versioned coordinator: every task has
   completedAt non-null exactly when its status is 'done'. *)
C10_CompletedAtIffDone ==
  variant = "sort" =>
    \A i \in 1..Len(tasks) : (tasks[i].completedAt # Null) <=> (tasks[i].status = "done")

(* C11: handleStatusChange(id, s) of the versioned coordinator: the task with
   that id gets status s; its completedAt becomes the current time if s is
   'done' and it was null, is kept if s is 'done' and it was set, and becomes
   null if s is not 'done'; every other task and the order are unchanged. *)
C11_StatusMove ==
  [][ev'.op = "statusChange" =>
       /\ Len(tasks') = Len(tasks)
       /\ \A i \in 1..Len(tasks) :
            IF tasks[i].id = ev'.id
            THEN /\ tasks'[i].id = tasks[i].id
                 /\ tasks'[i].title = tasks[i].title
                 /\ tasks'[i].status = ev'.status
                 /\ tasks'[i].completedAt =
                      (IF ev'.status = "done"
                       THEN (IF tasks[i].completedAt = Null THEN Now ELSE tasks[i].completedAt)
                       ELSE Null)
            ELSE tasks'[i] = tasks[i]]_vars

C11_Witness ==
  /\ ev.op = "statusChange" /\ ev.status = "todo"
  /\ \E i \in 1..Len(tasks) :
       tasks[i].id = ev.id /\ tasks[i].status = "todo" /\ tasks[i].completedAt = Null
  /\ cache.tasks = Json(<< SortA >>)

(* the run so far consists of soft-deletes only: nothing else shrinks the live list *)
OnlySoftDeletes == load.phase = "settled" /\ Len(tasks) = Len(TrashLive) - ops

Min(a, b) == IF a < b THEN a ELSE b

(* C13: trash eviction order.  After k soft-deletes of distinct live tasks,
   starting from an empty trash, the trash holds min(k, MAX_DELETED) entries:
   the most recently deleted tasks, newest first (the i-th entry was deleted i
   mutations ago), none of them live any more; each soft-delete takes the task
   out of the live list, puts it at the head of the trash and shifts the older
   entries back by one, so what falls off the end is the oldest. *)
C13_TrashEviction ==
  /\ [](OnlySoftDeletes =>
          /\ Len(deletedTasks) = Min(ops, MAX_DELETED)
          /\ \A i \in 1..Len(deletedTasks) :
               /\ deletedTasks[i].deletedAt = clock - i
               /\ deletedTasks[i].id \notin Ids(tasks))
  /\ [][(ev'.op = "softDeleteTask" /\ load.phase = "settled") =>
          /\ ev'.id \in Ids(tasks) /\ ev'.id \notin Ids(tasks')
          /\ Len(tasks') = Len(tasks) - 1
          /\ deletedTasks'[1].id = ev'.id /\ deletedTasks'[1].deletedAt = clock
          /\ Len(deletedTasks') = Min(Len(deletedTasks) + 1, MAX_DELETED)
          /\ \A i \in 2..Len(deletedTasks') : deletedTasks'[i] = deletedTasks[i - 1]]_vars

C13_Witness ==
  /\ OnlySoftDeletes
  /\ ops > MAX_DELETED
  /\ Len(deletedTasks) = MAX_DELETED
  /\ "t1" \notin Ids(deletedTasks) /\ "t1" \notin Ids(tasks)
  /\ deletedTasks[MAX_DELETED].id = "t2"

(* C12: trash bound.  In every reachable state of the /api/data coordinator,
   the states right after loading from the cache or from the remote store
   included, the trash holds at most MAX_DELETED entries. *)
C12_TrashBound == variant = "data" => Len(deletedTasks) <= MAX_DELETED

C12_Witness ==
  /\ ev.op = "softDeleteTask"
  /\ Len(deletedTasks) = MAX_DELETED
  /\ deletedTasks[1].id = "a"
  /\ "d" \o ToString(MAX_DELETED) \notin Ids(deletedTasks)
  /\ load.localD = FullTrash

(* position of the element with this id *)
IndexOf(s, id) == CHOOSE i \in 1..Len(s) : s[i].id = id

(* C14: restoreTask(id) for an id in the trash removes exactly that entry from
   the trash, keeps the other trash entries and the live tasks as they were and
   in order, and puts the task, without deletedAt and with its other fields as
   they were, at the front of the live list; for an id not in the trash it
   changes nothing and schedules no write. *)
C14_Restore ==
  [][/\ (ev'.op = "restoreTask" =>
           LET i == IndexOf(deletedTasks, ev'.id)
               entry == deletedTasks[i]
           IN /\ ev'.id \in Ids(deletedTasks)
              /\ Len(deletedTasks') = Len(deletedTasks) - 1
              /\ \A j \in 1..Len(deletedTasks') :
                   deletedTasks'[j] = (IF j < i THEN deletedTasks[j] ELSE deletedTasks[j + 1])
              /\ Len(tasks') = Len(tasks) + 1
              /\ \A j \in 1..Len(tasks) : tasks'[j + 1] = tasks[j]
              /\ DOMAIN tasks'[1] = DOMAIN entry \ {"deletedAt"}
              /\ \A key \in DOMAIN tasks'[1] : tasks'[1][key] = entry[key])
     /\ ((ev'.op = "refused" /\ ev'.call = "restoreTask") =>
           UNCHANGED << tasks, projects, deletedTasks, cache, saveTimer, posts >>)]_vars

C14_Witness ==
  /\ ev.op = "restoreTask"
  /\ Len(deletedTasks) = MAX_DELETED - 1
  /\ Len(tasks) > 1
  /\ tasks[1].id = ev.id /\ "deletedAt" \notin DOMAIN tasks[1]
  /\ deletedTasks[1].id # ev.id

(* C15: deleteProject(id) removes exactly the project with that id and leaves
   the live tasks (their projectId included, also when it equals id) and the
   trash unchanged; the project label of a task whose project is gone is the
   fallback label. *)
C15_NoCascade ==
  /\ [][ev'.op = "deleteProject" =>
          /\ projects' = SelectSeq(projects, LAMBDA p : p.id # ev'.id)
          /\ Len(projects') = Len(projects) - (IF ev'.id \in Ids(projects) THEN 1 ELSE 0)
          /\ tasks' = tasks
          /\ deletedTasks' = deletedTasks]_vars
  /\ [](variant = "data" =>
          \A i \in 1..Len(tasks) :
            ("projectId" \in DOMAIN tasks[i] /\ tasks[i].projectId \notin Ids(projects))
              => projectName(projects, tasks[i]) = "Unknown")

C15_Witness ==
  /\ ev.op = "deleteProject" /\ ev.id = "p"
  /\ "p" \notin Ids(projects)
  /\ \E i \in 1..Len(tasks) : "projectId" \in DOMAIN tasks[i] /\ tasks[i].projectId = "p"

(* no two elements of the sequence share an id *)
UniqueIds(s) == \A i, j \in 1..Len(s) : s[i].id = s[j].id => i = j

(* C16: identity uniqueness.  In every reachable state no two live tasks share
   an id and no two projects share an id, whatever creations, updates,
   soft-deletes, restores and loads came before. *)
C16_UniqueIds == UniqueIds(tasks) /\ UniqueIds(projects)

C16_Witness ==
  /\ ev.op = "restoreTask"
  /\ ops = MaxEditOps
  /\ Len(tasks) >= 3
  /\ Len(projects) >= 2
  /\ load.phase # "get"

(* C17: required title.  Every live task of the /api/data coordinator has a
   non-empty title; a create or an update whose title is empty or blank does
   not go through: it is refused, leaving tasks, projects, trash and cache as
   they were and scheduling no remote write. *)
C17_RequiredTitle ==
  /\ [](variant = "data" => \A i \in 1..Len(tasks) : Trim(tasks[i].title) # "")
  /\ [][/\ (ev'.op \in {"addTask", "updateTask"} => Trim(ev'.title) # "")
        /\ ((ev'.op = "refused" /\ ev'.call \in {"addTask", "updateTask"}) =>
              UNCHANGED << tasks, projects, deletedTasks, cache, saveTimer, posts >>)]_vars

(* C18: whole-document round trip at /api/data.  After a successful POST of
   {tasks, projects, deletedTasks}, a GET (no POST in between) answers with the
   authoritative source and with the tasks, projects and deletedTasks that were
   posted. *)
C18_RoundTrip ==
  (ev.op = "routePost" /\ ev.res.ok /\ ev.res.body.success
     /\ {"tasks", "projects", "deletedTasks"} \subseteq DOMAIN ev.body) =>
    LET r == GET("ok") IN
    /\ r.ok
    /\ r.body.source = "supabase"
    /\ r.body.tasks = ev.body.tasks
    /\ r.body.projects = ev.body.projects
    /\ OrEmpty(r.body, "deletedTasks") = ev.body.deletedTasks

(* C19: GET /api/data always answers 200 and reports provenance faithfully:
   'no-db' with empty arrays when no store is configured, 'empty' only when the
   store was reached and holds no document, 'error' whenever the store request
   failed, the authoritative source only when a stored document was read. *)
C19_Provenance ==
  ev.op = "routeGet" =>
    LET b == ev.res.body IN
    /\ ev.res.ok
    /\ (~dbOk => b.source = "no-db" /\ b.tasks = << >> /\ b.projects = << >>)
    /\ (b.source = "empty" => dbOk /\ ev.store = "ok" /\ ~ev.hadRow)
    /\ ((dbOk /\ ev.store \in {"error", "throw"}) => b.source = "error")
    /\ (b.source = "supabase" => dbOk /\ ev.store = "ok" /\ ev.hadRow)

(* C20: a corrupt or missing local cache is recovered in both coordinators'
   load paths.  When a cached key is absent or does not decode, the load uses
   that key's default, raises no error and still issues the remote GET, so the
   load never ends in an uncaught exception. *)
C20_CacheRecovery ==
  /\ load.phase # "crashed"
  /\ ev.op = "mount" =>
       /\ getReq.k = "sent"
       /\ cache.tasks.k # "json" =>
            tasks = (IF variant = "data" THEN DEFAULT_TASKS ELSE << >>)
       /\ cache.projects.k # "json" =>
            projects = (IF variant = "data" THEN DEFAULT_PROJECTS ELSE SORT_DEFAULT_PROJECTS)

(* C21: local-cache write failures are swallowed in the /api/data coordinator.
   When writing a cache key fails during a mutation or during load, memory
   still holds the new snapshot, the debounced POST for that mutation is still
   scheduled, no error escapes, and the load still reaches a settled status. *)
C21_WriteFailureSwallowed ==
  /\ [](load.phase # "crashed")
  /\ [][ (ev'.op \in MutationOps /\ WriteFails(cache)) =>
           /\ saveTimer'.k = "timer"
           /\ Snapshot(saveTimer'.t, saveTimer'.p, saveTimer'.d) = MemSnapshot' ]_vars

(* C22: load-time seed outcome in the versioned coordinator.  When the GET
   gives no usable document and the non-empty local snapshot is pushed to the
   remote store, the status after load is the settled-success status ('idle')
   if the seed POST succeeded and 'error' if it failed. *)
C22_SeedOutcome ==
  (variant = "sort" /\ ev.op = "postResolved" /\ ev.origin = "seed") =>
    /\ load.phase = "done"
    /\ syncStatus = (IF ev.success THEN "idle" ELSE "error")

(* the step stores the body of the debounced POST i in the remote row *)
StoresDebounced(i) ==
  /\ i \in 1..Len(posts)
  /\ posts[i].origin = "debounce" /\ posts[i].st = "sent"
  /\ remote' # remote

(* C23: cache-ahead ordering in the /api/data coordinator.  Once a mutation has
   happened the remote document never holds a snapshot more recent than the
   local cache: when the snapshot of the only mutation made so far reaches the
   remote row, the cache holds that snapshot too. *)
C23_CacheAhead ==
  [][ \A i \in 1..MaxInFlight :
        (variant = "data" /\ ops = 1 /\ StoresDebounced(i)) =>
          /\ CacheSnapshot(cache').tasks = posts[i].body.tasks
          /\ CacheSnapshot(cache').projects = posts[i].body.projects ]_vars

(* requests sent and not yet answered *)
InFlight == {i \in 1..Len(posts) : posts[i].st = "sent"}

(* C24: in the /api/data coordinator at most one remote POST is in flight at
   any time: a debounced POST never starts while an earlier debounced POST or
   the load-time seed POST is still outstanding. *)
C24_SinglePostInFlight ==
  variant = "data" => Cardinality(InFlight) <= 1

(* a GET or POST whose continuation has not run yet *)
RequestOutstanding == getReq # None \/ Len(posts) > 0

(* C25: the sync status tracks in-flight requests in both coordinators:
   whenever the status is 'syncing' a remote GET or POST is in flight, so once
   every issued request has resolved the status is no longer 'syncing'. *)
C25_SyncingMeansInFlight ==
  syncStatus = "syncing" => RequestOutstanding

(* the remote row holds the in-memory tasks and projects *)
RemoteMatchesMemory ==
  /\ remote.k = "row"
  /\ remote.value.tasks = JsonArr(tasks)
  /\ remote.value.projects = JsonArr(projects)

(* C26: eventual remote consistency in the /api/data coordinator.  If
   mutations stop and every remote request completes successfully, then
   eventually the remote document's tasks and projects equal the in-memory
   tasks and projects and remain equal. *)
C26_EventualConsistency == <>[]RemoteMatchesMemory

(* the continuation of POST i runs with an OK answer, right after the
   continuation of a POST that was issued later than it and also succeeded *)
ResolvesOlderAfterNewer(i) ==
  /\ variant = "sort"
  /\ ev.op = "postResolved" /\ ev.success /\ i <= ev.ahead
  /\ i \in 1..Len(posts) /\ posts[i].st = "resp"
  /\ posts[i].res.kind = "http" /\ posts[i].res.ok
  /\ Len(posts') = Len(posts) - 1 /\ posts' = RemoveAt(posts, i)

(* C27: in the versioned coordinator, when two POSTs overlap and their
   responses arrive in any order, the lastUpdated retained in memory is the one
   returned for the POST that carried the most recent snapshot, not the one
   whose response arrived last. *)
C27_LastUpdatedByRecency ==
  [][ \A i \in 1..MaxInFlight : ResolvesOlderAfterNewer(i) => lastUpdated' = lastUpdated ]_vars

(* ids of the tasks and of the projects a cache holds *)
CachedTaskIds(c) == IF c.tasks.k = "json" THEN Ids(c.tasks.v) ELSE {}
CachedProjectIds(c) == IF c.projects.k = "json" THEN Ids(c.projects.v) ELSE {}

(* C28: no edit is lost to the load race, in both coordinators.  A task or a
   project created while the load-time GET is in flight is still in memory and
   in the local cache after that GET resolves, whatever the GET returns. *)
C28_NoEditLostToLoad ==
  [][ LoadResolving =>
        /\ \A id \in Ids(tasks) \ Ids(load.localT) :
             id \in Ids(tasks') /\ id \in CachedTaskIds(cache')
        /\ \A id \in Ids(projects) \ Ids(load.localP) :
             id \in Ids(projects') /\ id \in CachedProjectIds(cache') ]_vars

(* the store holds a document with tasks or projects in it *)
RemoteHoldsUserData ==
  /\ remote.k = "row"
  /\ (Len(OrEmpty(remote.value, "tasks")) > 0 \/ Len(OrEmpty(remote.value, "projects")) > 0)

(* the load's continuation issues the seed POST *)
IssuesSeed == LoadResolving /\ load'.phase = "seed"

(* C29: the load-time seed POST of the /api/data coordinator is issued only
   when the remote store really holds no document: a remote document with user
   tasks or projects is never overwritten by defaults or by a cache snapshot
   merely because the GET failed, answered non-OK or reported a store error. *)
C29_SeedOnlyWhenEmpty ==
  [][ (variant = "data" /\ ops = 0 /\ IssuesSeed) => ~RemoteHoldsUserData ]_vars

(* C30: live and trash are disjoint.  In every reachable state of the
   /api/data coordinator, after any sequence of task creations, soft-deletes,
   restores, purges, empty-trash and loads, no task id is both in the live task
   collection and in the trash. *)
C30_LiveTrashDisjoint ==
  variant = "data" => Ids(tasks) \cap Ids(deletedTasks) = {}

(* the load has completed and a restore has just put a task back among the
   live ones while other entries remain in the trash *)
C30_Witness ==
  /\ variant = "data" /\ load.phase = "done"
  /\ ev.op = "restoreTask" /\ ev.id \in Ids(tasks)
  /\ Len(deletedTasks) > 0

====
